---------------------------- MODULE Spec2Model ----------------------------
(***************************************************************************)
(* StratifiedGroupKfold._iter_test_indices (tb_pipe/validation/            *)
(* cross_validate.py) driven by the fold loop of experiment.run            *)
(* (tb_pipe/experiment/experiment.py).                                     *)
(*                                                                         *)
(* numpy arrays are functions over 0..n-1 (the source's 0-based indices);  *)
(* Python lists that are appended to are sequences.                        *)
(***************************************************************************)
EXTENDS Integers, Sequences, FiniteSets, TLC

\* Bounds of the explored inputs.
MaxLen == 3
MaxLabel == 2
MaxGroupId == 2
MaxSplits == 3
MaxReuseLen == 2

VARIABLES
    n_splits, constrain_groups, weighted,   \* the splitter object (lines 101-106)
    y, groups_arg,                          \* arguments of the current split call
    groups,                                 \* groups after np.unique(..., return_inverse) (line 113)
    label_to_fold, fold_groups,             \* lines 123-124
    li,                                     \* position of `for label in unique_y`
    indices, n_samples_per_group,           \* lines 133-134
    n_samples_per_fold, groups_in_fold,     \* lines 137, 140
    group_index,                            \* position of the loop of line 143
    f,                                      \* position of `for f in range(n_splits)`
    yielded,                                \* the index lists yielded so far by this call
    oof,                                    \* experiment.run: writes received by each oof position
    earlier,                                \* an earlier call of run has used this splitter
    pc

vars == << n_splits, constrain_groups, weighted, y, groups_arg, groups,
           label_to_fold, fold_groups, li, indices, n_samples_per_group,
           n_samples_per_fold, groups_in_fold, group_index, f, yielded, oof, earlier, pc >>

----------------------------------------------------------------------------
\* Arrays

\* Python's None; every array of the model is non-empty, so it is no array.
NoneValue == << >>

\* A local name that is not bound yet in the generator's frame.
Unbound == << >>

Size(a) == Cardinality(DOMAIN a)

Values(a) == { a[i] : i \in DOMAIN a }

Arrays(n, S) == [0..(n - 1) -> S]

MaxOf(S) == CHOOSE m \in S : \A x \in S : x <= m

MinOf(S) == CHOOSE m \in S : \A x \in S : m <= x

\* The ascending list of a set of integers.
RECURSIVE SortedList(_)
SortedList(S) ==
    IF S = {} THEN << >>
    ELSE LET m == MinOf(S) IN << m >> \o SortedList(S \ {m})

\* np.unique(a): the sorted distinct values, as an array.
AsArray(s) == [p \in 0..(Len(s) - 1) |-> s[p + 1]]

Unique(a) == AsArray(SortedList(Values(a)))

\* The second result of np.unique(a, return_inverse=True): the position of each
\* element in Unique(a).
UniqueInverse(a) ==
    [i \in DOMAIN a |-> Cardinality({ u \in Values(a) : u < a[i] })]

\* np.bincount of the values grp takes on the positions sel: one count per
\* value 0..max.
BincountOn(grp, sel) ==
    [v \in 0..MaxOf({ grp[i] : i \in sel }) |->
        Cardinality({ i \in sel : grp[i] = v })]

\* Lines 128-130: np.bincount(groups[y == label])
Bincount(grp, yy, label) ==
    BincountOn(grp, { i \in DOMAIN grp : yy[i] = label })

\* np.argsort(a): ascending. numpy's default sort insertion-sorts arrays of up
\* to 16 elements, so equal values keep their index order; the docstring
\* example (lines 86-89) comes out only with this order of equal counts.
Argsort(a) ==
    LET rank(i) == Cardinality({ j \in DOMAIN a :
                        a[j] < a[i] \/ (a[j] = a[i] /\ j < i) })
    IN  [p \in DOMAIN a |-> CHOOSE i \in DOMAIN a : rank(i) = p]

\* A sort on the count descending that keeps equal counts in index order.
ArgsortStableDescending(a) ==
    LET rank(i) == Cardinality({ j \in DOMAIN a :
                        a[j] > a[i] \/ (a[j] = a[i] /\ j < i) })
    IN  [p \in DOMAIN a |-> CHOOSE i \in DOMAIN a : rank(i) = p]

\* a[::-1]
Reversed(a) == [p \in DOMAIN a |-> a[Size(a) - 1 - p]]

\* Line 133: np.argsort(n_samples_per_group)[::-1]
ArgsortReversed(a) == Reversed(Argsort(a))

\* The first position of the maximum.
Argmax(a) ==
    MinOf({ i \in DOMAIN a : \A j \in DOMAIN a : a[i] >= a[j] })

\* np.argmin(a): the first position of the minimum.
Argmin(a) ==
    MinOf({ i \in DOMAIN a : \A j \in DOMAIN a : a[i] <= a[j] })

----------------------------------------------------------------------------
\* StratifiedGroupKfold._iter_test_indices, piece by piece

\* Line 116 with one group too many let through.
TooManySplitsOffByOne(k, n_groups) == k > n_groups + 1

\* Line 116: if self.n_splits > n_groups
TooManySplits(k, n_groups) == k > n_groups

\* Lines 109-119: the two ValueErrors.
Raises(k, gg) ==
    \/ gg = NoneValue
    \/ TooManySplits(k, Size(Unique(gg)))

\* label_to_fold kept from an earlier call when there is one.
KeptLabelToFold(prev) == prev

\* Line 123: label_to_fold = []   (prev: what the name held before)
NewLabelToFold(prev) == << >>

\* fold_groups kept from an earlier call when there is one.
KeptFoldGroups(prev, k) ==
    IF prev = Unbound THEN [fi \in 0..(k - 1) |-> << >>] ELSE prev

\* Line 124: fold_groups = [[] for x in range(self.n_splits)]
NewFoldGroups(prev, k) == [fi \in 0..(k - 1) |-> << >>]

\* Line 137: n_samples_per_fold = np.zeros(self.n_splits)
ZeroFolds(k) == [fi \in 0..(k - 1) |-> 0]

\* Line 140: groups_in_fold = {x: [] for x in range(self.n_splits)}
EmptyFolds(k) == [fi \in 0..(k - 1) |-> << >>]

\* Lines 130-134: the groups of one label, most frequent first, and their counts.
Reordered(cnt, ord) ==
    [indices |-> ord,
     n_samples_per_group |-> [p \in DOMAIN ord |-> cnt[ord[p]]]]

Ordered(cnt) == Reordered(cnt, ArgsortReversed(cnt))

LabelOrder(grp, yy, label) == Ordered(Bincount(grp, yy, label))

\* The fold argmin chose, whatever fold the group is in already.
IgnorePlaced(fg, g, lightest) == lightest

\* Lines 152-155: the fold that already holds group g, else lightest. The loop
\* has no break: the last fold that holds g wins.
PlacedFold(fg, g, lightest) ==
    LET holds == { fi \in DOMAIN fg : \E p \in DOMAIN fg[fi] : fg[fi][p] = g }
    IN  IF holds = {} THEN lightest ELSE MaxOf(holds)

\* Lines 148-155: the fold the next group goes to.
ChooseFold(cg, fg, acc, g) ==
    LET lightest_fold == Argmin(acc)
    IN  IF cg THEN PlacedFold(fg, g, lightest_fold) ELSE lightest_fold

\* Lines 157-160
AddWeight(w, acc, fold, weight) ==
    [acc EXCEPT ![fold] = @ + (IF w THEN weight ELSE 1)]

\* Lines 143-164, one iteration with a non-zero weight.
PlaceInto(fold, w, fg, acc, gif, g, weight) ==
    [fold_groups |-> [fg EXCEPT ![fold] = Append(@, g)],
     n_samples_per_fold |-> AddWeight(w, acc, fold, weight),
     groups_in_fold |-> [gif EXCEPT ![fold] = Append(@, g)]]

PlaceGroup(cg, w, fg, acc, gif, g, weight) ==
    PlaceInto(ChooseFold(cg, fg, acc, g), w, fg, acc, gif, g, weight)

\* The group test alone, without the label.
IntersectAnyLabel(yy, grp, label, members) ==
    SortedList({ i \in DOMAIN yy : \E p \in DOMAIN members : members[p] = grp[i] })

\* The label test alone, without the groups of the fold.
IntersectAnyGroup(yy, grp, label, members) ==
    SortedList({ i \in DOMAIN yy : yy[i] = label })

\* np.intersect1d(label_indices, group_indices) for one label and fold f:
\* sorted, each index once.
Intersect(yy, grp, label, members) ==
    SortedList({ i \in DOMAIN yy :
                   yy[i] = label /\ \E p \in DOMAIN members : members[p] = grp[i] })

\* Lines 169-184: the list fold ff yields.
RECURSIVE TestIndices(_, _, _, _)
TestIndices(ltf, yy, grp, ff) ==
    IF ltf = << >> THEN << >>
    ELSE Intersect(yy, grp, Head(ltf).label, Head(ltf).groups_in_fold[ff])
         \o TestIndices(Tail(ltf), yy, grp, ff)

\* Lines 143-164 from position p of the group loop to its end.
RECURSIVE PlaceFrom(_, _, _, _, _)
PlaceFrom(cg, w, r, o, p) ==
    IF p = Size(o.indices) THEN r
    ELSE IF o.n_samples_per_group[p] = 0 THEN PlaceFrom(cg, w, r, o, p + 1)
    ELSE PlaceFrom(cg, w,
                   PlaceGroup(cg, w, r.fold_groups, r.n_samples_per_fold,
                              r.groups_in_fold, o.indices[p],
                              o.n_samples_per_group[p]),
                   o, p + 1)

\* Lines 126-166 for one label, from the fold_groups fg of the labels before it.
PlaceLabel(k, cg, w, grp, yy, label, fg) ==
    PlaceFrom(cg, w,
              [fold_groups |-> fg, n_samples_per_fold |-> ZeroFolds(k),
               groups_in_fold |-> EmptyFolds(k)],
              LabelOrder(grp, yy, label), 0)

\* Lines 126-166 from label number l on; s holds fold_groups and label_to_fold.
RECURSIVE LabelsFrom(_, _, _, _, _, _, _, _)
AfterLabel(k, cg, w, grp, yy, labels, l, ltf, r) ==
    LabelsFrom(k, cg, w, grp, yy, labels, l + 1,
               [fold_groups |-> r.fold_groups,
                label_to_fold |-> Append(ltf,
                    [label |-> labels[l], groups_in_fold |-> r.groups_in_fold])])

LabelsFrom(k, cg, w, grp, yy, labels, l, s) ==
    IF l = Size(labels) THEN s.label_to_fold
    ELSE AfterLabel(k, cg, w, grp, yy, labels, l, s.label_to_fold,
                    PlaceLabel(k, cg, w, grp, yy, labels[l], s.fold_groups))

\* Lines 121-166 in a frame no earlier call has touched: label_to_fold.
FreshLabelToFold(k, cg, w, yy, gg) ==
    LabelsFrom(k, cg, w, UniqueInverse(gg), yy, Unique(yy), 0,
               [fold_groups |-> [fi \in 0..(k - 1) |-> << >>],
                label_to_fold |-> << >>])

\* BaseCrossValidator.split, reached through line 205: the yielded list becomes
\* a boolean mask; test is the masked positions, train the others, ascending.
TestIndex(ind) == SortedList({ ind[p] : p \in DOMAIN ind })

TrainIndex(ind, n) == SortedList((0..(n - 1)) \ { ind[p] : p \in DOMAIN ind })

----------------------------------------------------------------------------
\* experiment.run

\* Line 32: oof = np.zeros(len(train)); the model counts the writes.
NewOof(n) == [i \in 0..(n - 1) |-> 0]

\* Line 45: oof[val_idx] = trainer.predict(valid_x)
WriteOof(o, val_idx) ==
    [i \in DOMAIN o |->
        o[i] + Cardinality({ p \in DOMAIN val_idx : val_idx[p] = i })]

----------------------------------------------------------------------------
\* The state machine

\* pc: "idle"      the splitter is constructed, run is not called
\*     "label"     the generator is at line 126, the head of the label loop
\*     "place"     the generator is at line 143, the head of the group loop
\*     "fold"      the generator is at line 168, the head of the fold loop
\*     "body"      the generator has yielded; run is at line 37 with the fold
\*     "raised"    a ValueError of the splitter has left run
\*     "aborted"   the trainer had no get_feature_importance (line 52)
\*     "returned"  run has returned (line 62)
Finished == {"raised", "aborted", "returned"}

LabelArrays(n) == Arrays(n, 1..MaxLabel)

GroupArrays(n) == Arrays(n, 0..MaxGroupId)

\* The docstring example (lines 74-75).
ExampleGroups == [i \in 0..8 |-> << 3, 0, 3, 0, 3, 3, 2, 0, 1 >>[i + 1]]

ExampleLabels == [i \in 0..8 |-> << 1, 1, 1, 1, 1, 2, 2, 2, 2 >>[i + 1]]

\* StratifiedGroupKfold(n_splits, constrain_groups, weighted); n_splits >= 2 is
\* enforced by _BaseKFold.__init__ (line 103).
Init ==
    /\ n_splits \in 2..MaxSplits
    /\ constrain_groups \in BOOLEAN
    /\ weighted \in BOOLEAN
    /\ y = Unbound
    /\ groups_arg = Unbound
    /\ groups = Unbound
    /\ label_to_fold = Unbound
    /\ fold_groups = Unbound
    /\ li = 0
    /\ indices = Unbound
    /\ n_samples_per_group = Unbound
    /\ n_samples_per_fold = Unbound
    /\ groups_in_fold = Unbound
    /\ group_index = 0
    /\ f = 0
    /\ yielded = << >>
    /\ oof = Unbound
    /\ earlier = FALSE
    /\ pc = "idle"

\* run lines 24-36 and the first next() of the generator, lines 109-124: a new
\* frame, the arguments bound, nothing else.
Enter(yy, gg) ==
    /\ y' = yy
    /\ groups_arg' = gg
    /\ groups' = IF gg = NoneValue THEN Unbound ELSE UniqueInverse(gg)
    /\ li' = 0
    /\ indices' = Unbound
    /\ n_samples_per_group' = Unbound
    /\ n_samples_per_fold' = Unbound
    /\ groups_in_fold' = Unbound
    /\ group_index' = 0
    /\ f' = 0
    /\ yielded' = << >>
    /\ oof' = NewOof(Size(yy))
    /\ UNCHANGED << n_splits, constrain_groups, weighted, earlier >>

\* Lines 109-119: the call raises before line 123.
StartRaise(yy, gg) ==
    /\ Raises(n_splits, gg)
    /\ Enter(yy, gg)
    /\ UNCHANGED << label_to_fold, fold_groups >>
    /\ pc' = "raised"

\* Lines 109-124: the checks pass, the placement lists are created.
StartOk(yy, gg) ==
    /\ ~Raises(n_splits, gg)
    /\ Enter(yy, gg)
    /\ label_to_fold' = NewLabelToFold(label_to_fold)
    /\ fold_groups' = NewFoldGroups(fold_groups, n_splits)
    /\ pc' = "label"

\* Lines 126-143: the next label; its groups ordered, the accumulators reset.
NextLabel ==
    /\ pc = "label"
    /\ li < Size(Unique(y))
    /\ LET o == LabelOrder(groups, y, Unique(y)[li])
       IN  /\ indices' = o.indices
           /\ n_samples_per_group' = o.n_samples_per_group
    /\ n_samples_per_fold' = ZeroFolds(n_splits)
    /\ groups_in_fold' = EmptyFolds(n_splits)
    /\ group_index' = 0
    /\ pc' = "place"
    /\ UNCHANGED << n_splits, constrain_groups, weighted, y, groups_arg, groups, earlier,
                    label_to_fold, fold_groups, li, f, yielded, oof >>

\* Lines 143-164: one group with a non-zero weight is placed.
Place ==
    /\ pc = "place"
    /\ group_index < Size(n_samples_per_group)
    /\ n_samples_per_group[group_index] # 0
    /\ LET r == PlaceGroup(constrain_groups, weighted, fold_groups,
                           n_samples_per_fold, groups_in_fold,
                           indices[group_index],
                           n_samples_per_group[group_index])
       IN  /\ fold_groups' = r.fold_groups
           /\ n_samples_per_fold' = r.n_samples_per_fold
           /\ groups_in_fold' = r.groups_in_fold
    /\ group_index' = group_index + 1
    /\ UNCHANGED << n_splits, constrain_groups, weighted, y, groups_arg, groups, earlier,
                    label_to_fold, li, indices, n_samples_per_group, f,
                    yielded, oof, pc >>

\* Lines 145-146: if not weight: continue
SkipEmpty ==
    /\ pc = "place"
    /\ group_index < Size(n_samples_per_group)
    /\ n_samples_per_group[group_index] = 0
    /\ group_index' = group_index + 1
    /\ UNCHANGED << n_splits, constrain_groups, weighted, y, groups_arg, groups, earlier,
                    label_to_fold, fold_groups, li, indices,
                    n_samples_per_group, n_samples_per_fold, groups_in_fold,
                    f, yielded, oof, pc >>

\* Line 166, and the label loop's exit after the last label.
EndLabel ==
    /\ pc = "place"
    /\ group_index = Size(n_samples_per_group)
    /\ label_to_fold' = Append(label_to_fold,
            [label |-> Unique(y)[li], groups_in_fold |-> groups_in_fold])
    /\ li' = li + 1
    /\ pc' = IF li + 1 < Size(Unique(y)) THEN "label" ELSE "fold"
    /\ UNCHANGED << n_splits, constrain_groups, weighted, y, groups_arg, groups, earlier,
                    fold_groups, indices, n_samples_per_group,
                    n_samples_per_fold, groups_in_fold, group_index, f,
                    yielded, oof >>

\* Lines 168-184: fold f is computed and yielded to run's loop.
Yield ==
    /\ pc = "fold"
    /\ f < n_splits
    /\ yielded' = Append(yielded, TestIndices(label_to_fold, y, groups, f))
    /\ pc' = "body"
    /\ UNCHANGED << n_splits, constrain_groups, weighted, y, groups_arg, groups, earlier,
                    label_to_fold, fold_groups, li, indices,
                    n_samples_per_group, n_samples_per_fold, groups_in_fold,
                    group_index, f, oof >>

\* run lines 37-52 for the fold just yielded, then the generator resumes.
Body ==
    /\ pc = "body"
    /\ oof' = WriteOof(oof, TestIndex(yielded[Len(yielded)]))
    /\ f' = f + 1
    /\ pc' = "fold"
    /\ UNCHANGED << n_splits, constrain_groups, weighted, y, groups_arg, groups, earlier,
                    label_to_fold, fold_groups, li, indices,
                    n_samples_per_group, n_samples_per_fold, groups_in_fold,
                    group_index, yielded >>

\* run line 52 with a trainer that has no get_feature_importance (the Trainer
\* of cross_validate.py has none): the first use raises AttributeError, after
\* line 45 has written oof.
BodyAbort ==
    /\ pc = "body"
    /\ f = 0
    /\ oof' = WriteOof(oof, TestIndex(yielded[Len(yielded)]))
    /\ pc' = "aborted"
    /\ UNCHANGED << n_splits, constrain_groups, weighted, y, groups_arg, groups, earlier,
                    label_to_fold, fold_groups, li, indices,
                    n_samples_per_group, n_samples_per_fold, groups_in_fold,
                    group_index, f, yielded >>

\* The generator is exhausted; run lines 54-62.
Return ==
    /\ pc = "fold"
    /\ f = n_splits
    /\ pc' = "returned"
    /\ UNCHANGED << n_splits, constrain_groups, weighted, y, groups_arg, groups, earlier,
                    label_to_fold, fold_groups, li, indices,
                    n_samples_per_group, n_samples_per_fold, groups_in_fold,
                    group_index, f, yielded, oof >>

Steps ==
    \/ NextLabel
    \/ Place
    \/ SkipEmpty
    \/ EndLabel
    \/ Yield
    \/ Body
    \/ BodyAbort
    \/ Return

\* One call of run on a new splitter, with any labels and groups (or no groups).
RunOk ==
    /\ pc = "idle"
    /\ ~earlier
    /\ \E n \in 1..MaxLen : \E yy \in LabelArrays(n) :
          \E gg \in GroupArrays(n) : StartOk(yy, gg)

RunRaise ==
    /\ pc = "idle"
    /\ ~earlier
    /\ \E n \in 1..MaxLen : \E yy \in LabelArrays(n) :
          \E gg \in GroupArrays(n) \cup {NoneValue} : StartRaise(yy, gg)

Next == RunOk \/ RunRaise \/ Steps

Spec == Init /\ [][Next]_vars

\* run is over: the caller lets go of its arguments and results. What the
\* placement lists held stays where it was until a later call assigns them.
Leave ==
    /\ pc \in Finished
    /\ pc' = "idle"
    /\ earlier' = TRUE
    /\ y' = Unbound
    /\ groups_arg' = Unbound
    /\ groups' = Unbound
    /\ li' = 0
    /\ indices' = Unbound
    /\ n_samples_per_group' = Unbound
    /\ n_samples_per_fold' = Unbound
    /\ groups_in_fold' = Unbound
    /\ group_index' = 0
    /\ f' = 0
    /\ yielded' = << >>
    /\ oof' = Unbound
    /\ UNCHANGED << n_splits, constrain_groups, weighted, label_to_fold,
                    fold_groups >>

\* The same splitter object used by one call of run after another.
ReuseOk ==
    /\ pc = "idle"
    /\ \E n \in 1..MaxReuseLen : \E yy \in LabelArrays(n) :
          \E gg \in GroupArrays(n) : StartOk(yy, gg)

ReuseRaise ==
    /\ pc = "idle"
    /\ \E n \in 1..MaxReuseLen : \E yy \in LabelArrays(n) :
          \E gg \in GroupArrays(n) \cup {NoneValue} : StartRaise(yy, gg)

NextReuse == ReuseOk \/ ReuseRaise \/ Steps \/ Leave

SpecReuse == Init /\ [][NextReuse]_vars

\* The docstring example, under every configuration, with and without groups.
ExampleOk ==
    /\ pc = "idle"
    /\ StartOk(ExampleLabels, ExampleGroups)

ExampleRaise ==
    /\ pc = "idle"
    /\ \E gg \in {ExampleGroups, NoneValue} : StartRaise(ExampleLabels, gg)

NextExample == ExampleOk \/ ExampleRaise \/ Steps

SpecExample == Init /\ [][NextExample]_vars

----------------------------------------------------------------------------
\* Properties

\* The caller has received every fold of the current call.
Complete == pc = "returned"

\* The sample indices in the list yielded for fold j (1-based in yielded).
InFold(j) == { yielded[j][p] : p \in DOMAIN yielded[j] }

\* The samples of the raw group id v, and those with label l among them.
SamplesOfGroup(v) == { i \in DOMAIN y : groups_arg[i] = v }

SamplesOfPair(v, l) == { i \in DOMAIN y : groups_arg[i] = v /\ y[i] = l }

FoldsOf(S) == { j \in DOMAIN yielded : InFold(j) \cap S # {} }

NonEmptyFolds == { j \in DOMAIN yielded : yielded[j] # << >> }

\* C1: when all k folds are yielded, every sample index 0..n-1 is in the list
\* of exactly one fold, no list holds an index twice, and nothing else occurs
\* in the lists.
C1_Partition ==
    Complete =>
        /\ Len(yielded) = n_splits
        /\ \A i \in DOMAIN y :
              Cardinality({ j \in DOMAIN yielded : i \in InFold(j) }) = 1
        /\ \A j \in DOMAIN yielded :
              /\ Len(yielded[j]) = Cardinality(InFold(j))
              /\ InFold(j) \subseteq DOMAIN y

C1_Witness ==
    /\ pc = "returned"
    /\ Size(y) = MaxLen
    /\ Cardinality(Values(y)) >= 2
    /\ Cardinality(NonEmptyFolds) >= 2

\* C2: with constrain_groups, all samples of a group id lie in the list of
\* exactly one fold, and no two labels hold the same group in different folds.
C2_GroupInOneFold ==
    (constrain_groups /\ Complete) =>
        /\ \A v \in Values(groups_arg) :
              \E j \in DOMAIN yielded :
                  /\ SamplesOfGroup(v) \subseteq InFold(j)
                  /\ FoldsOf(SamplesOfGroup(v)) = {j}
        /\ \A a, b \in DOMAIN label_to_fold : \A fa, fb \in 0..(n_splits - 1) :
              (\E p \in DOMAIN label_to_fold[a].groups_in_fold[fa] :
               \E q \in DOMAIN label_to_fold[b].groups_in_fold[fb] :
                    label_to_fold[a].groups_in_fold[fa][p]
                        = label_to_fold[b].groups_in_fold[fb][q])
              => fa = fb

\* A later label found its group already placed, in a fold that is not the one
\* argmin would take first.
C2_Witness ==
    /\ constrain_groups
    /\ pc = "returned"
    /\ \E v \in Values(groups_arg) :
          /\ Cardinality({ y[i] : i \in SamplesOfGroup(v) }) >= 2
          /\ FoldsOf(SamplesOfGroup(v)) = {2}
          /\ \E i \in SamplesOfGroup(v) :
                /\ y[i] = MaxOf(Values(y))
                /\ \A i2 \in DOMAIN y : y[i2] = y[i] => groups_arg[i2] = v

\* C3: without constrain_groups, the samples of one (group, label) pair lie in
\* the list of exactly one fold.
C3_PairInOneFold ==
    (~constrain_groups /\ Complete) =>
        \A i \in DOMAIN y :
            \E j \in DOMAIN yielded :
                /\ SamplesOfPair(groups_arg[i], y[i]) \subseteq InFold(j)
                /\ FoldsOf(SamplesOfPair(groups_arg[i], y[i])) = {j}

\* A group spread over two folds through two labels.
C3_Witness ==
    /\ ~constrain_groups
    /\ pc = "returned"
    /\ \E v \in Values(groups_arg) : Cardinality(FoldsOf(SamplesOfGroup(v))) >= 2

\* The (train, test) pairs split has handed to its caller so far.
SplitPairs ==
    [j \in DOMAIN yielded |->
        [train |-> TrainIndex(yielded[j], Size(y)), test |-> TestIndex(yielded[j])]]

ExamplePairs ==
    << [train |-> << 1, 3, 6, 7 >>, test |-> << 0, 2, 4, 5, 8 >>],
       [train |-> << 0, 2, 4, 5, 8 >>, test |-> << 1, 3, 6, 7 >>] >>

ExampleCall ==
    /\ pc \notin {"idle", "raised"}
    /\ n_splits = 2 /\ constrain_groups /\ weighted
    /\ y = ExampleLabels /\ groups_arg = ExampleGroups

\* C4: the docstring example under the default configuration with n_splits=2
\* yields fold 0 = (train {1,3,6,7}, test {0,2,4,5,8}) and then fold 1 =
\* (train {0,2,4,5,8}, test {1,3,6,7}), and nothing more.
C4_Example ==
    ExampleCall =>
        /\ Len(yielded) <= 2
        /\ \A j \in DOMAIN yielded : SplitPairs[j] = ExamplePairs[j]
        /\ pc = "returned" => Len(yielded) = 2

C4_Witness == ExampleCall /\ pc = "returned" /\ SplitPairs = ExamplePairs

\* C5: a call without groups, or with more splits than distinct group ids, ends
\* in the ValueError with no fold yielded, and never reaches any other place.
C5_FailsBeforeAnyFold ==
    (pc # "idle" /\ (groups_arg = NoneValue
                        \/ n_splits > Cardinality(Values(groups_arg))))
        => (pc = "raised" /\ yielded = << >>)

C5_Witness ==
    /\ pc = "raised"
    /\ groups_arg # NoneValue
    /\ n_splits = Cardinality(Values(groups_arg)) + 1
    /\ yielded = << >>

\* Every fold is non-empty and holds the samples of exactly one group.
OneGroupPerFold ==
    \A j \in DOMAIN yielded :
        /\ yielded[j] # << >>
        /\ \E v \in Values(groups_arg) : InFold(j) = SamplesOfGroup(v)

SplitsEqualGroups == n_splits = Cardinality(Values(groups_arg))

\* C6 as claimed: with n_splits = number of groups and constrain_groups, every
\* fold is non-empty and is exactly one group, for every assignment of labels.
C6_Original ==
    (constrain_groups /\ Complete /\ SplitsEqualGroups) => OneGroupPerFold

\* The label processed first (the smallest) has a sample in every group.
FirstLabelInEveryGroup ==
    \A v \in Values(groups_arg) : SamplesOfPair(v, MinOf(Values(y))) # {}

\* C6 amended: with n_splits = number of groups and constrain_groups the split
\* succeeds, and every fold is non-empty and is exactly one group whenever the
\* first-processed label occurs in every group.
C6_Amended ==
    /\ (pc # "idle" /\ groups_arg # NoneValue /\ SplitsEqualGroups) => pc # "raised"
    /\ (constrain_groups /\ Complete /\ SplitsEqualGroups /\ FirstLabelInEveryGroup)
            => OneGroupPerFold

C6_Witness ==
    /\ constrain_groups
    /\ pc = "returned"
    /\ SplitsEqualGroups
    /\ FirstLabelInEveryGroup
    /\ Cardinality(Values(y)) >= 2
    /\ OneGroupPerFold

\* C7: whatever calls were made on the splitter before, the lists the current
\* call has yielded are those of a frame no earlier call has touched.
C7_SameAsFresh ==
    \A j \in DOMAIN yielded :
        yielded[j] = TestIndices(
            FreshLabelToFold(n_splits, constrain_groups, weighted, y, groups_arg),
            y, UniqueInverse(groups_arg), j - 1)

\* A second call has run to its end where an earlier call had placed groups.
C7_Witness ==
    /\ earlier
    /\ pc = "returned"
    /\ constrain_groups
    /\ Cardinality(Values(y)) >= 2
    /\ Cardinality(NonEmptyFolds) = 1

\* C8: when run returns, oof has one position per training sample and each
\* position has been written exactly once.
C8_OofWrittenOnce ==
    pc = "returned" =>
        /\ DOMAIN oof = DOMAIN y
        /\ \A i \in DOMAIN oof : oof[i] = 1

C8_Witness ==
    /\ pc = "returned"
    /\ Size(oof) = MaxLen
    /\ Cardinality(NonEmptyFolds) >= 2
    /\ \A i \in DOMAIN oof : oof[i] = 1

\* The samples of label l in dense group g.
CountOf(l, g) == Cardinality({ i \in DOMAIN y : y[i] = l /\ groups[i] = g })

\* indices lists every group of label l, with its true count.
IndicesCover(l) ==
    /\ \A p \in DOMAIN indices : n_samples_per_group[p] = CountOf(l, indices[p])
    /\ \A i \in DOMAIN y : y[i] = l => groups[i] \in Values(indices)

\* The group loop visits indices in order, has placed exactly the non-empty
\* groups before group_index, and holds the true counts of the current label.
PlacementFollowsIndices ==
    /\ IndicesCover(Unique(y)[li])
    /\ UNION { { groups_in_fold[fi][q] : q \in DOMAIN groups_in_fold[fi] } :
                  fi \in DOMAIN groups_in_fold }
         = { indices[p] : p \in { q \in DOMAIN indices :
                                     q < group_index /\ n_samples_per_group[q] # 0 } }

\* C9 as claimed: groups are placed by descending count, equal counts by
\* ascending dense group index.
C9_Original ==
    pc = "place" =>
        /\ PlacementFollowsIndices
        /\ \A p, q \in DOMAIN indices :
              (p < q /\ n_samples_per_group[q] # 0) =>
                  \/ n_samples_per_group[p] > n_samples_per_group[q]
                  \/ /\ n_samples_per_group[p] = n_samples_per_group[q]
                     /\ indices[p] < indices[q]

\* C9 amended: groups are placed by descending count, equal counts by
\* DESCENDING dense group index (the reverse of a stable ascending argsort).
C9_Amended ==
    pc = "place" =>
        /\ PlacementFollowsIndices
        /\ \A p, q \in DOMAIN indices :
              (p < q /\ n_samples_per_group[q] # 0) =>
                  \/ n_samples_per_group[p] > n_samples_per_group[q]
                  \/ /\ n_samples_per_group[p] = n_samples_per_group[q]
                     /\ indices[p] > indices[q]

\* Two groups of equal count have both been placed.
C9_Witness ==
    /\ pc = "place"
    /\ group_index = Size(indices)
    /\ \E p, q \in DOMAIN indices :
          /\ p < q
          /\ n_samples_per_group[p] = n_samples_per_group[q]
          /\ n_samples_per_group[q] # 0
          /\ indices[p] > indices[q]

\* Samples of label l in fold j, and the group ids they come from.
LabelInFold(l, j) == { i \in InFold(j) : y[i] = l }

GroupsOfLabelInFold(l, j) == { groups_arg[i] : i \in LabelInFold(l, j) }

LargestGroupOfLabel(l) ==
    MaxOf({ Cardinality(SamplesOfPair(v, l)) : v \in Values(groups_arg) })

\* C10: without constrain_groups, for every label and every two folds: when
\* weighted, the sample counts of the label differ by at most the label's
\* largest per-group count; when not weighted, its group counts differ by at
\* most 1.
C10_Balance ==
    (~constrain_groups /\ Complete) =>
        \A l \in Values(y) : \A j1, j2 \in DOMAIN yielded :
            IF weighted
            THEN Cardinality(LabelInFold(l, j1)) - Cardinality(LabelInFold(l, j2))
                    <= LargestGroupOfLabel(l)
            ELSE Cardinality(GroupsOfLabelInFold(l, j1))
                    - Cardinality(GroupsOfLabelInFold(l, j2)) <= 1

\* A label with groups of different sizes, spread over the folds.
C10_Witness ==
    /\ ~constrain_groups
    /\ weighted
    /\ pc = "returned"
    /\ \E l \in Values(y) :
          /\ \E v1, v2 \in Values(groups_arg) :
                Cardinality(SamplesOfPair(v1, l)) > Cardinality(SamplesOfPair(v2, l))
                    /\ SamplesOfPair(v2, l) # {}
          /\ \A j \in DOMAIN yielded : LabelInFold(l, j) # {}

=============================================================================
